---- MODULE Spec2Model ----
(***************************************************************************)
(* A model of the path tracer of lets-trace-some-rays-in-rust:             *)
(* src/ltsr/mod.rs (geometry, ray_color) and src/ltsr/materials.rs.        *)
(*                                                                         *)
(* Numbers.  The code computes in f32.  The model computes in fixed point: *)
(* an integer n stands for n / ONE, the resolution being t_min = 0.001.    *)
(* Sums, differences and negations are exact; products, quotients and      *)
(* square roots are rounded toward zero, which is, like the IEEE rounding, *)
(* monotone and symmetric in the sign.  f32::INFINITY is the largest       *)
(* integer.  Rays have a direction with length_squared > 0 (the quadratic  *)
(* of Sphere::hit has a = 0 otherwise, and the code then computes NaN).    *)
(***************************************************************************)
EXTENDS Integers, Sequences, FiniteSets, TLC

VARIABLES
    scene,          \* Scene.elements: the sequence of spheres
    ray,            \* the ray handed to hit() / ray_color()
    t_min,          \* the range handed to hit()
    t_max,
    sphere_result,  \* <<i, Sphere::hit(elements[i], ray, t_min, t_max)>> once called
    scene_result,   \* <<Scene::hit(ray, t_min, t_max)>> once called
    scatter_result, \* <<the random point drawn, material.scatter(ray, object)>> once called
    max_depth,      \* the max_depth handed to the outermost ray_color()
    stack,          \* the activations of ray_color(), the innermost last
    pc,             \* "call": the innermost activation starts; "return": it has
                    \* returned retval to the one below; "done"; "panic"
    retval,         \* the Color returned by the activation that returned last
    last,           \* that activation: its arguments and what it called
    activations,    \* the number of ray_color() activations so far
    scatter_calls,  \* the number of material.scatter() calls so far
    bounces,        \* the attenuations of the scattering bounces so far
    ending,         \* how the path ended: "miss", "absorbed", "exhausted"
    image_width,    \* RENDER_BUFFER_WIDTH of the build
    image_height,   \* RENDER_BUFFER_HEIGHT of the build
    samples_per_pixel, \* NUM_SAMPLES_PER_PIXEL of the build
    render_pc,      \* render_scene(): "idle", "loop", "return", "done", "panic"
    render_buffer,  \* its render_buffer, slot k of the code being element k + 1
    render_index,   \* its write index
    render_x,       \* its loop variables x and y
    render_y,
    writes,         \* how often each slot of render_buffer has been written
    render_result,  \* <<the Result it returned>>
    display_input,  \* the render_buffer handed to convert_to_display_buffer()
    is_data_pass,   \* its is_data_pass
    display_result, \* <<the Result it returned>>
    fs_dirs,        \* the file system: the directories that exist
    fs_files,       \* the file system: the content of the files that exist
    save_image,     \* the image handed to save_exr_image_to_disk()
    save_path,      \* its image_path
    save_result,    \* <<what it returned and what it did>>
    file_name,      \* LTSRApp: the fields of the application
    file_name_with_ext,
    current_render_progress,
    render_progress_label,
    rendered_image,
    app_render_buffer, \* LTSRApp.render_buffer
    tasks,          \* the futures of Command::perform that have not finished
    renders_started, \* the number of RenderPressed handled
    last_finished,  \* <<the render and the buffer of the last RenderTaskFinished(Ok(..))>>
    shown_render    \* the render rendered_image comes from, 0 for none

hitVars == <<t_min, t_max, sphere_result, scene_result>>

colorVars ==
    <<max_depth, stack, pc, retval, last, activations, scatter_calls, bounces, ending>>

traceVars == <<scene, ray, hitVars, scatter_result, colorVars>>

buildVars == <<image_width, image_height, samples_per_pixel>>

renderVars ==
    <<render_pc, render_buffer, render_index, render_x, render_y, writes, render_result>>

displayVars == <<display_input, is_data_pass, display_result>>

saveVars == <<fs_dirs, fs_files, save_image, save_path, save_result>>

appVars ==
    <<file_name, file_name_with_ext, current_render_progress, render_progress_label,
      rendered_image, app_render_buffer, tasks, renders_started, last_finished,
      shown_render>>

pipelineVars == <<buildVars, renderVars, displayVars, saveVars, appVars>>

vars == <<traceVars, pipelineVars>>

MaxWidth == 2

MaxHeight == 2

MaxSamples == 2

\* a build with sizes and a number of samples that are not zero
BuildValid ==
    /\ image_width = MaxWidth
    /\ image_height = MaxHeight
    /\ samples_per_pixel = MaxSamples

\* render_scene() has not been called
RenderIdle ==
    /\ render_pc = "idle"
    /\ render_buffer = <<>>
    /\ render_index = 0
    /\ render_x = 0
    /\ render_y = 0
    /\ writes = <<>>
    /\ render_result = <<>>

\* convert_to_display_buffer() has not been called
DisplayIdle ==
    /\ display_input = <<>>
    /\ is_data_pass = FALSE
    /\ display_result = <<>>

\* save_exr_image_to_disk() has not been called
SaveIdle ==
    /\ fs_dirs = {}
    /\ fs_files = <<>>
    /\ save_image = <<>>
    /\ save_path = <<>>
    /\ save_result = <<>>

\* there is no application
AppIdle ==
    /\ file_name = ""
    /\ file_name_with_ext = ""
    /\ current_render_progress = 0
    /\ render_progress_label = ""
    /\ rendered_image = <<>>
    /\ app_render_buffer = <<>>
    /\ tasks = {}
    /\ renders_started = 0
    /\ last_finished = <<>>
    /\ shown_render = 0

PipelineIdle == BuildValid /\ RenderIdle /\ DisplayIdle /\ SaveIdle /\ AppIdle

-----------------------------------------------------------------------------
(* f32 arithmetic in fixed point *)

T_MIN == 1
ONE == 1000 * T_MIN
INFINITY == 2147483647
EPSILON == 1
I32_MIN == -2147483647 - 1

Abs(x) == IF x < 0 THEN -x ELSE x

\* the quotient rounded toward zero
TDiv(x, y) ==
    IF (x >= 0) = (y > 0) THEN Abs(x) \div Abs(y) ELSE -(Abs(x) \div Abs(y))

FMul(x, y) == TDiv(x * y, ONE)

FDiv(x, y) == TDiv(x * ONE, y)

RECURSIVE SqrtSearch(_, _, _)
\* the largest r in lo..hi with r * r <= n
SqrtSearch(n, lo, hi) ==
    IF lo >= hi THEN lo
    ELSE LET mid == (lo + hi + 1) \div 2
         IN  IF mid * mid <= n THEN SqrtSearch(n, mid, hi)
             ELSE SqrtSearch(n, lo, mid - 1)

FSqrt(x) == SqrtSearch(x * ONE, 0, 46340)

-----------------------------------------------------------------------------
(* glam::Vec3 *)

Vec3(x, y, z) == <<x, y, z>>

VAdd(u, v) == <<u[1] + v[1], u[2] + v[2], u[3] + v[3]>>

VSub(u, v) == <<u[1] - v[1], u[2] - v[2], u[3] - v[3]>>

VNeg(v) == <<-v[1], -v[2], -v[3]>>

\* scalar * vector
VScale(k, v) == <<FMul(k, v[1]), FMul(k, v[2]), FMul(k, v[3])>>

\* vector / scalar
VDiv(v, k) == <<FDiv(v[1], k), FDiv(v[2], k), FDiv(v[3], k)>>

\* component-wise product
VMul(u, v) == <<FMul(u[1], v[1]), FMul(u[2], v[2]), FMul(u[3], v[3])>>

Dot(u, v) == FMul(u[1], v[1]) + FMul(u[2], v[2]) + FMul(u[3], v[3])

LengthSquared(v) == Dot(v, v)

Length(v) == FSqrt(LengthSquared(v))

Normalize(v) == VDiv(v, Length(v))

-----------------------------------------------------------------------------
(* Option<T>: None is the empty sequence, Some(x) the sequence of x *)

None == <<>>

Some(x) == <<x>>

IsSome(o) == o # <<>>

Unwrap(o) == o[1]

-----------------------------------------------------------------------------
(* Ray, HitData, Sphere *)

Ray(origin, direction) == [origin |-> origin, direction |-> direction]

point_at_parameter(r, t) == VAdd(r.origin, VScale(t, r.direction))

HitData(t, hit_point, normal, material) ==
    [t |-> t, hit_point |-> hit_point, normal |-> normal, material |-> material]

Sphere(radius, center, material) ==
    [radius |-> radius, center |-> center, material |-> material]

\* get_face_normal without the flip of a back face
get_face_normal_unflipped(r, outward_normal) ==
    <<outward_normal, Dot(r.direction, outward_normal) < 0>>

\* the normal turned against the ray, and whether the ray meets the front face
get_face_normal(r, outward_normal) ==
    LET is_front_face == Dot(r.direction, outward_normal) < 0
    IN  <<IF is_front_face THEN outward_normal ELSE VScale(-ONE, outward_normal),
          is_front_face>>

\* the coefficients of the quadratic of Sphere::hit
HitQuadratic(sphere, r) ==
    LET Quadratic(a, half_b, c) ==
            [a |-> a, half_b |-> half_b, c |-> c,
             discriminant |-> FMul(half_b, half_b) - FMul(a, c)]
        From(center_to_origin) ==
            Quadratic(LengthSquared(r.direction),
                      Dot(center_to_origin, r.direction),
                      LengthSquared(center_to_origin)
                          - FMul(sphere.radius, sphere.radius))
    IN  From(VSub(r.origin, sphere.center))

\* SphereHitT trying the larger root first
SphereHitT_larger_first(sphere, r, tmin, tmax) ==
    LET Nearest(t1, t2) ==
            IF t1 < tmin \/ tmax < t1
            THEN IF t2 < tmin \/ tmax < t2 THEN None ELSE Some(t2)
            ELSE Some(t1)
        Roots(q, discriminant_squared) ==
            Nearest(FDiv(-q.half_b + discriminant_squared, q.a),
                    FDiv(-q.half_b - discriminant_squared, q.a))
        Solve(q) ==
            IF q.discriminant < 0 THEN None ELSE Roots(q, FSqrt(q.discriminant))
    IN  Solve(HitQuadratic(sphere, r))

\* SphereHitT with a range open at t_max
SphereHitT_strict(sphere, r, tmin, tmax) ==
    LET Nearest(t1, t2) ==
            IF t1 < tmin \/ tmax <= t1
            THEN IF t2 < tmin \/ tmax <= t2 THEN None ELSE Some(t2)
            ELSE Some(t1)
        Roots(q, discriminant_squared) ==
            Nearest(FDiv(-q.half_b - discriminant_squared, q.a),
                    FDiv(-q.half_b + discriminant_squared, q.a))
        Solve(q) ==
            IF q.discriminant < 0 THEN None ELSE Roots(q, FSqrt(q.discriminant))
    IN  Solve(HitQuadratic(sphere, r))

\* the t Sphere::hit settles on, or None: t1 is the smaller root and t2 the
\* larger one
SphereHitT(sphere, r, tmin, tmax) ==
    LET Nearest(t1, t2) ==
            IF t1 < tmin \/ tmax < t1
            THEN IF t2 < tmin \/ tmax < t2 THEN None ELSE Some(t2)
            ELSE Some(t1)
        Roots(q, discriminant_squared) ==
            Nearest(FDiv(-q.half_b - discriminant_squared, q.a),
                    FDiv(-q.half_b + discriminant_squared, q.a))
        Solve(q) ==
            IF q.discriminant < 0 THEN None ELSE Roots(q, FSqrt(q.discriminant))
    IN  Solve(HitQuadratic(sphere, r))

\* impl Hittable for Sphere
SphereHit(sphere, r, tmin, tmax) ==
    LET Hit(t, hit_point) ==
            Some(HitData(t, hit_point,
                         get_face_normal(
                             r, VDiv(VSub(hit_point, sphere.center), sphere.radius))[1],
                         sphere.material))
        Found(t) ==
            IF ~IsSome(t) THEN None
            ELSE Hit(Unwrap(t), point_at_parameter(r, Unwrap(t)))
    IN  Found(SphereHitT(sphere, r, tmin, tmax))

RECURSIVE SceneHitFrom_wide(_, _, _, _, _, _)
\* the loop of Scene::hit, never narrowing t_max
SceneHitFrom_wide(elements, i, r, tmin, closest_so_far, closest_hit) ==
    LET Matched(h) ==
            IF IsSome(h)
            THEN SceneHitFrom_wide(elements, i + 1, r, tmin, closest_so_far, h)
            ELSE SceneHitFrom_wide(elements, i + 1, r, tmin, closest_so_far, closest_hit)
    IN  IF i > Len(elements) THEN closest_hit
        ELSE Matched(SphereHit(elements[i], r, tmin, closest_so_far))

RECURSIVE SceneHitFrom(_, _, _, _, _, _)
\* the loop of Scene::hit from element i on
SceneHitFrom(elements, i, r, tmin, closest_so_far, closest_hit) ==
    LET Matched(h) ==
            IF IsSome(h)
            THEN SceneHitFrom(elements, i + 1, r, tmin, Unwrap(h).t, h)
            ELSE SceneHitFrom(elements, i + 1, r, tmin, closest_so_far, closest_hit)
    IN  IF i > Len(elements) THEN closest_hit
        ELSE Matched(SphereHit(elements[i], r, tmin, closest_so_far))

\* impl Hittable for Scene
SceneHit(elements, r, tmin, tmax) == SceneHitFrom(elements, 1, r, tmin, tmax, None)

-----------------------------------------------------------------------------
(* Color.  The products of colours are exact: a colour is the numerators n   *)
(* over 10^e, an albedo being in tenths (e = 1) and a background colour in  *)
(* thousandths (e = 3).                                                     *)

Color(n, e) == [n |-> n, e |-> e]

Black == Color(<<0, 0, 0>>, 0)

\* pixel_color = other
CMul_overwrite(c1, c2) == c2

\* pixel_color *= other
CMul(c1, c2) ==
    Color(<<c1.n[1] * c2.n[1], c1.n[2] * c2.n[2], c1.n[3] * c2.n[3]>>, c1.e + c2.e)

\* get_background_color without the normalize()
get_background_color_raw(r) ==
    LET white == Vec3(ONE, ONE, ONE)
        blue == Vec3(ONE \div 2, (7 * ONE) \div 10, ONE)
        t == FMul(ONE \div 2, r.direction[2] + ONE)
    IN  Color(VAdd(white, VScale(t, VSub(blue, white))), 3)

\* white.lerp(blue, t): the background gradient
get_background_color(r) ==
    LET unit_direction == Normalize(r.direction)
        white == Vec3(ONE, ONE, ONE)
        blue == Vec3(ONE \div 2, (7 * ONE) \div 10, ONE)
        t == FMul(ONE \div 2, unit_direction[2] + ONE)
    IN  Color(VAdd(white, VScale(t, VSub(blue, white))), 3)

-----------------------------------------------------------------------------
(* Random points.  random_in_unit_sphere draws points until one has a       *)
(* length_squared < 1 and returns it: the points it can return are the      *)
(* candidates inside the unit sphere.                                       *)

\* the candidates drawn while ray_color runs
ColorCandidates ==
    {Vec3(0, ONE \div 2, 0), Vec3(ONE \div 2, 0, -(ONE \div 2)),
     Vec3(-(ONE \div 2), -(ONE \div 2), ONE \div 2), Vec3(-ONE, 0, 0)}

random_in_unit_sphere(candidates) == {p \in candidates : LengthSquared(p) < ONE}

random_in_hemisphere(in_unit_sphere, normal) ==
    IF Dot(in_unit_sphere, normal) > 0 THEN in_unit_sphere ELSE VNeg(in_unit_sphere)

near_zero(vec) ==
    Abs(vec[1]) <= EPSILON /\ Abs(vec[2]) <= Abs(EPSILON) /\ vec[3] <= EPSILON

reflect(vec, normal) == VSub(vec, VScale(FMul(2 * ONE, Dot(vec, normal)), normal))

-----------------------------------------------------------------------------
(* Materials (src/ltsr/materials.rs).  An albedo is in tenths. *)

Lambertian(albedo) == [kind |-> "Lambertian", albedo |-> albedo]

Metallic(albedo, roughness) ==
    [kind |-> "Metallic", albedo |-> albedo, roughness |-> roughness]

\* LambertianScatter absorbing a ray that does not leave the surface, as
\* Metallic does
LambertianScatter_absorbing(self, ray_in, data, in_unit_sphere) ==
    LET Guarded(scatter_direction) ==
            IF near_zero(scatter_direction) THEN data.normal ELSE scatter_direction
        Outside(new_ray) ==
            IF Dot(new_ray.direction, data.normal) > 0
            THEN Some(<<Color(self.albedo, 1), new_ray>>)
            ELSE None
    IN  Outside(Ray(data.hit_point,
                    VSub(Guarded(VAdd(data.hit_point,
                                      random_in_hemisphere(in_unit_sphere, data.normal))),
                         data.hit_point)))

\* impl Material for Lambertian, in_unit_sphere being the random point drawn
LambertianScatter(self, ray_in, data, in_unit_sphere) ==
    LET Guarded(scatter_direction) ==
            IF near_zero(scatter_direction) THEN data.normal ELSE scatter_direction
        new_ray ==
            Ray(data.hit_point,
                VSub(Guarded(VAdd(data.hit_point,
                                  random_in_hemisphere(in_unit_sphere, data.normal))),
                     data.hit_point))
    IN  Some(<<Color(self.albedo, 1), new_ray>>)

\* MetallicScatter testing the reflection before the roughness moves it
MetallicScatter_unperturbed(self, ray_in, data, in_unit_sphere) ==
    LET roughness_perturbation == VScale(self.roughness, in_unit_sphere)
        Outside(reflected_direction) ==
            IF Dot(reflected_direction, data.normal) > 0
            THEN Some(<<Color(self.albedo, 1),
                        Ray(data.hit_point,
                            VAdd(reflected_direction, roughness_perturbation))>>)
            ELSE None
    IN  Outside(Normalize(reflect(ray_in.direction, data.normal)))

\* impl Material for Metallic, in_unit_sphere being the random point drawn
MetallicScatter(self, ray_in, data, in_unit_sphere) ==
    LET reflected_direction == Normalize(reflect(ray_in.direction, data.normal))
        roughness_perturbation == VScale(self.roughness, in_unit_sphere)
        Outside(new_ray) ==
            IF Dot(new_ray.direction, data.normal) > 0
            THEN Some(<<Color(self.albedo, 1), new_ray>>)
            ELSE None
    IN  Outside(Ray(data.hit_point, VAdd(reflected_direction, roughness_perturbation)))

\* material.scatter(ray, data) through the Material trait
Scatter(material, ray_in, data, in_unit_sphere) ==
    IF material.kind = "Lambertian"
    THEN LambertianScatter(material, ray_in, data, in_unit_sphere)
    ELSE MetallicScatter(material, ray_in, data, in_unit_sphere)

\* the materials of RenderTask::render_scene
mat_center == Lambertian(<<7, 3, 3>>)

mat_left == Metallic(<<8, 8, 8>>, (3 * ONE) \div 10)

mat_right == Metallic(<<8, 6, 2>>, ONE)

-----------------------------------------------------------------------------
(* Camera *)

CameraNew(focal_length, viewport_width, viewport_height) ==
    LET origin == Vec3(0, 0, 0)
        right == Vec3(viewport_width, 0, 0)
        up == Vec3(0, viewport_height, 0)
        back == Vec3(0, 0, focal_length)
    IN  [position |-> origin, right |-> right, up |-> up, back |-> back,
         focal_length |-> focal_length,
         lower_left_corner |->
             VSub(VSub(VSub(origin, VDiv(right, 2 * ONE)), VDiv(up, 2 * ONE)), back)]

get_ray_at_coords(self, u, v) ==
    Ray(self.position,
        VSub(VAdd(VAdd(self.lower_left_corner, VScale(u, self.right)),
                  VScale(v, self.up)),
             self.position))

\* the camera of RenderTask::render_scene: a viewport of 2 by 2 at focal length 1
camera == CameraNew(ONE, 2 * ONE, 2 * ONE)

-----------------------------------------------------------------------------
(* ray_color: one step of the model is one activation up to its recursive   *)
(* call or its return (RayColorCall), or the return of an activation whose  *)
(* recursive call has returned (RayColorReturn).                           *)

\* no ray_color() is running
ColorIdle ==
    /\ max_depth = 0
    /\ stack = <<>>
    /\ pc = "idle"
    /\ retval = Black
    /\ last = <<>>
    /\ activations = 0
    /\ scatter_calls = 0
    /\ bounces = <<>>
    /\ ending = <<>>

\* nothing is being traced
TraceIdle ==
    /\ scene = <<>>
    /\ ray = <<>>
    /\ t_min = T_MIN
    /\ t_max = INFINITY
    /\ sphere_result = <<>>
    /\ scene_result = <<>>
    /\ scatter_result = <<>>
    /\ ColorIdle

\* an activation of ray_color(ray, scene, max_depth); color is the pixel_color
\* it holds while its recursive call runs
Frame(r, depth) == [ray |-> r, max_depth |-> depth, color |-> None]

\* DepthExhausted letting a max_depth of 0 through
DepthExhausted_negative(depth) == depth < 0

\* DepthExhausted testing max_depth == 0
DepthExhausted_zero(depth) == depth = 0

\* the bounce budget is used up
DepthExhausted(depth) == depth <= 0

\* max_depth.checked_sub(1)
checked_sub1(n) == IF n = I32_MIN THEN None ELSE Some(n - 1)

\* the innermost activation returns value, having called scene.hit hits
\* times and material.scatter scatters times
ReturnColor(value, hits, scatters) ==
    LET f == stack[Len(stack)]
    IN  /\ stack' = SubSeq(stack, 1, Len(stack) - 1)
        /\ retval' = value
        /\ last' = [ray |-> f.ray, max_depth |-> f.max_depth, value |-> value,
                    hit_calls |-> hits, scatter_calls |-> scatters]
        /\ pc' = IF Len(stack) = 1 THEN "done" ELSE "return"

\* ray_color() from its entry to its recursive call, its return or its panic
RayColorCall ==
    /\ pc = "call"
    /\ LET f == stack[Len(stack)]
           Scattered(scatter, new_max_depth) ==
               /\ scatter_calls' = scatter_calls + 1
               /\ IF IsSome(scatter)
                  THEN /\ stack' =
                            Append([stack EXCEPT ![Len(stack)].color =
                                                     Some(Unwrap(scatter)[1])],
                                   Frame(Unwrap(scatter)[2], new_max_depth))
                       /\ activations' = activations + 1
                       /\ bounces' = Append(bounces, Unwrap(scatter)[1])
                       /\ UNCHANGED <<pc, retval, last, ending>>
                  ELSE /\ ReturnColor(Black, 1, 1)
                       /\ ending' = <<"absorbed", f.ray>>
                       /\ UNCHANGED <<activations, bounces>>
           Hit(object, new_max_depth) ==
               IF ~IsSome(new_max_depth)
               THEN /\ pc' = "panic"
                    /\ UNCHANGED <<stack, retval, last, activations, scatter_calls,
                                   bounces, ending>>
               ELSE \E p \in random_in_unit_sphere(ColorCandidates) :
                      Scattered(Scatter(object.material, f.ray, object, p),
                                Unwrap(new_max_depth))
           Matched(object) ==
               IF IsSome(object)
               THEN Hit(Unwrap(object), checked_sub1(f.max_depth))
               ELSE /\ ReturnColor(get_background_color(f.ray), 1, 0)
                    /\ ending' = <<"miss", f.ray>>
                    /\ UNCHANGED <<activations, scatter_calls, bounces>>
       IN  IF DepthExhausted(f.max_depth)
           THEN /\ ReturnColor(Black, 0, 0)
                /\ ending' = <<"exhausted", f.ray>>
                /\ UNCHANGED <<activations, scatter_calls, bounces>>
           ELSE Matched(SceneHit(scene, f.ray, t_min, t_max))
    /\ UNCHANGED <<scene, ray, hitVars, scatter_result, max_depth, pipelineVars>>

\* pixel_color *= ray_color(&new_ray, &scene, new_max_depth); return pixel_color
RayColorReturn ==
    /\ pc = "return"
    /\ ReturnColor(CMul(Unwrap(stack[Len(stack)].color), retval), 1, 1)
    /\ UNCHANGED <<scene, ray, hitVars, scatter_result, max_depth, activations,
                   scatter_calls, bounces, ending, pipelineVars>>

-----------------------------------------------------------------------------
(* The inputs of hit(): scenes of at most MaxElements spheres *)

MaxElements == 3

HitMaterials == {mat_center, mat_left}

HitSpheres ==
    {Sphere(ONE, Vec3(0, 0, -2 * ONE), m) : m \in HitMaterials}
    \cup {Sphere(2 * ONE, Vec3(0, 0, -3 * ONE), mat_left),
          Sphere(ONE, Vec3(0, 0, -5 * ONE), mat_center),
          Sphere(ONE \div 2, Vec3(ONE, 0, -ONE), mat_center),
          Sphere(ONE \div 2, Vec3(0, 3 * ONE, 0), mat_left)}

RECURSIVE SeqsUpTo(_, _)
\* the sequences over S of length at most n
SeqsUpTo(S, n) ==
    IF n = 0 THEN {<<>>}
    ELSE LET shorter == SeqsUpTo(S, n - 1)
         IN  shorter \cup {Append(q, x) : q \in shorter, x \in S}

HitRays ==
    {Ray(o, d) :
        o \in {Vec3(0, 0, 0), Vec3(0, 0, -2 * ONE)},
        d \in {Vec3(0, 0, -ONE), Vec3(0, 0, 2 * ONE), Vec3(0, ONE, 0),
               Vec3(ONE, 0, -ONE)}}

HitRanges == {<<T_MIN, INFINITY>>, <<2 * ONE, 4 * ONE>>, <<0, ONE>>}

InitHit ==
    /\ scene \in SeqsUpTo(HitSpheres, MaxElements)
    /\ ray \in HitRays
    /\ \E rg \in HitRanges : t_min = rg[1] /\ t_max = rg[2]
    /\ sphere_result = <<>>
    /\ scene_result = <<>>
    /\ scatter_result = <<>>
    /\ ColorIdle
    /\ PipelineIdle

\* element.hit(ray, t_min, t_max) on one element of the scene
CallSphereHit ==
    /\ sphere_result = <<>>
    /\ scene_result = <<>>
    /\ \E i \in DOMAIN scene :
          sphere_result' = <<i, SphereHit(scene[i], ray, t_min, t_max)>>
    /\ UNCHANGED <<scene, ray, t_min, t_max, scene_result, scatter_result, colorVars,
                   pipelineVars>>

\* scene.hit(ray, t_min, t_max)
CallSceneHit ==
    /\ sphere_result = <<>>
    /\ scene_result = <<>>
    /\ scene_result' = <<SceneHit(scene, ray, t_min, t_max)>>
    /\ UNCHANGED <<scene, ray, t_min, t_max, sphere_result, scatter_result, colorVars,
                   pipelineVars>>

NextHit == CallSphereHit \/ CallSceneHit

SpecHit == InitHit /\ [][NextHit]_vars

-----------------------------------------------------------------------------
(* Scene::hit and Sphere::hit, checked under SpecHit *)

\* what element i returns by itself over the whole range
OwnHit(i) == SphereHit(scene[i], ray, t_min, t_max)

\* the elements with a hit of their own in [t_min, t_max]
Hitting == {i \in DOMAIN scene : IsSome(OwnHit(i))}

OwnT(i) == Unwrap(OwnHit(i)).t

SceneHitReturned == scene_result # <<>> /\ IsSome(scene_result[1])

\* the elements whose own hit is at the t that Scene::hit returned
Tied == {i \in Hitting : OwnT(i) = Unwrap(scene_result[1]).t}

Min(S) == CHOOSE x \in S : \A y \in S : x <= y

Max(S) == CHOOSE x \in S : \A y \in S : y <= x

\* C1: Scene::hit returns None exactly when no element has a hit of its own
\* in [t_min, t_max]; otherwise it returns the hit of one of the elements,
\* and no element has a hit of its own with a smaller t.
C1_SceneHitClosest ==
    scene_result # <<>> =>
        /\ (scene_result[1] = None) <=> (Hitting = {})
        /\ IsSome(scene_result[1]) =>
              /\ \E i \in Hitting : Unwrap(scene_result[1]) = Unwrap(OwnHit(i))
              /\ \A i \in Hitting : Unwrap(scene_result[1]).t <= OwnT(i)

\* a farther element comes before the closest one, and another after it
C1_Witness ==
    /\ SceneHitReturned
    /\ \E i, j \in Hitting : i < j /\ OwnT(j) < OwnT(i)
    /\ \E i, j \in Hitting : i < j /\ OwnT(i) < OwnT(j)

\* C2 as claimed: of the elements hit at the same closest t, Scene::hit
\* returns the hit of the first in the element order.
C2_FirstTiedWins ==
    SceneHitReturned => Unwrap(scene_result[1]) = Unwrap(OwnHit(Min(Tied)))

\* C2 amended: of the elements hit at the same closest t, Scene::hit returns
\* the hit of the last in the element order (an equal t is inside the
\* narrowed range and replaces the earlier hit; only a farther one is
\* excluded).
C2_LastTiedWins ==
    SceneHitReturned =>
        /\ Unwrap(scene_result[1]) = Unwrap(OwnHit(Max(Tied)))
        /\ \A i \in Hitting : i > Max(Tied) => OwnT(i) > OwnT(Max(Tied))

\* two elements of different materials are hit at the same closest t
C2_Witness ==
    /\ SceneHitReturned
    /\ \E i, j \in Tied : i < j /\ scene[i].material # scene[j].material

InRange(t) == t_min <= t /\ t <= t_max

\* C3: Sphere::hit returns None when the discriminant is negative; else the
\* smaller root if it is in [t_min, t_max], else the larger root if that is,
\* else None; a returned t is in [t_min, t_max] and hit_point is
\* origin + t * direction.
C3_SphereHitRoots ==
    sphere_result # <<>> =>
        LET res == sphere_result[2]
            q == HitQuadratic(scene[sphere_result[1]], ray)
            smaller == FDiv(-q.half_b - FSqrt(q.discriminant), q.a)
            larger == FDiv(-q.half_b + FSqrt(q.discriminant), q.a)
        IN  /\ IF q.discriminant < 0 THEN res = None
               ELSE IF InRange(smaller) THEN IsSome(res) /\ Unwrap(res).t = smaller
               ELSE IF InRange(larger) THEN IsSome(res) /\ Unwrap(res).t = larger
               ELSE res = None
            /\ IsSome(res) =>
                  /\ InRange(Unwrap(res).t)
                  /\ Unwrap(res).hit_point =
                        VAdd(ray.origin, VScale(Unwrap(res).t, ray.direction))

\* the smaller root is out of range and the larger one, a different t, is returned
C3_Witness ==
    /\ sphere_result # <<>>
    /\ IsSome(sphere_result[2])
    /\ LET q == HitQuadratic(scene[sphere_result[1]], ray)
           smaller == FDiv(-q.half_b - FSqrt(q.discriminant), q.a)
       IN  ~InRange(smaller) /\ Unwrap(sphere_result[2]).t # smaller

\* C4: the normal of every HitData of Sphere::hit and of Scene::hit is turned
\* against the ray: dot(ray.direction, normal) <= 0.
C4_NormalAgainstRay ==
    /\ sphere_result # <<>> /\ IsSome(sphere_result[2]) =>
          Dot(ray.direction, Unwrap(sphere_result[2]).normal) <= 0
    /\ SceneHitReturned => Dot(ray.direction, Unwrap(scene_result[1]).normal) <= 0

\* a ray from inside the sphere leaves it through a back face
C4_Witness ==
    /\ sphere_result # <<>>
    /\ IsSome(sphere_result[2])
    /\ LET s == scene[sphere_result[1]]
           h == Unwrap(sphere_result[2])
       IN  /\ LengthSquared(VSub(ray.origin, s.center)) < FMul(s.radius, s.radius)
           /\ Dot(ray.direction, VSub(h.hit_point, s.center)) > 0
           /\ h.normal = VNeg(VDiv(VSub(h.hit_point, s.center), s.radius))

-----------------------------------------------------------------------------
(* The inputs of ray_color(): the scene of render_scene without its ground, *)
(* parts of it, and a sphere around the camera; the rays of the camera; a   *)
(* max_depth of any sign up to MaxDepth.                                    *)

MaxDepth == 3

sphere_2 == Sphere(ONE \div 2, Vec3(0, 0, -ONE), mat_center)

sphere_3 == Sphere(ONE \div 2, Vec3(-ONE, 0, -ONE), mat_left)

sphere_4 == Sphere(ONE \div 2, Vec3(ONE, 0, -ONE), mat_right)

ColorScenes ==
    {<<>>, <<sphere_2>>, <<sphere_2, sphere_3, sphere_4>>,
     <<Sphere(4 * ONE, Vec3(0, 0, 0), mat_center)>>,
     <<sphere_2, Sphere(4 * ONE, Vec3(0, 0, 0), mat_right)>>}

ColorRays == {get_ray_at_coords(camera, u, v) : u, v \in {0, ONE \div 2, ONE}}

ColorDepths == {I32_MIN, -1} \cup (0 .. MaxDepth)

InitColor ==
    /\ scene \in ColorScenes
    /\ ray \in ColorRays
    /\ t_min = T_MIN
    /\ t_max = INFINITY
    /\ sphere_result = <<>>
    /\ scene_result = <<>>
    /\ scatter_result = <<>>
    /\ max_depth \in ColorDepths
    /\ stack = <<Frame(ray, max_depth)>>
    /\ pc = "call"
    /\ retval = Black
    /\ last = <<>>
    /\ activations = 1
    /\ scatter_calls = 0
    /\ bounces = <<>>
    /\ ending = <<>>
    /\ PipelineIdle

NextColor == RayColorCall \/ RayColorReturn

SpecColor == InitColor /\ [][NextColor]_vars

-----------------------------------------------------------------------------
(* ray_color, checked under SpecColor and SpecColorLive *)

\* the background of a direction, as specified: from white (1, 1, 1) to
\* (0.5, 0.7, 1.0) by t = 0.5 * (y + 1), y the vertical component of the
\* normalized direction
Gradient(direction) ==
    LET y == FDiv(direction[2], FSqrt(Dot(direction, direction)))
        t == FMul(ONE \div 2, y + ONE)
    IN  [n |-> <<ONE + FMul(t, ONE \div 2 - ONE),
                 ONE + FMul(t, (7 * ONE) \div 10 - ONE),
                 ONE>>,
         e |-> 3]

Misses(r) == ~IsSome(SceneHit(scene, r, T_MIN, INFINITY))

\* C5: an activation of ray_color with max_depth <= 0 returns black, and
\* calls neither scene.hit nor a material's scatter.
C5_BlackWhenExhausted ==
    /\ last # <<>> /\ last.max_depth <= 0 =>
          /\ last.value = [n |-> <<0, 0, 0>>, e |-> 0]
          /\ last.hit_calls = 0
          /\ last.scatter_calls = 0
    /\ pc = "done" /\ max_depth <= 0 =>
          /\ retval = [n |-> <<0, 0, 0>>, e |-> 0]
          /\ activations = 1
          /\ scatter_calls = 0

\* a ray that would have hit a sphere was given no budget
C5_Witness ==
    /\ pc = "done"
    /\ max_depth <= 0
    /\ ~Misses(ray)

\* C6: an activation of ray_color with max_depth > 0 whose ray hits nothing
\* returns the background gradient of the ray's direction and calls no
\* material's scatter.
C6_BackgroundOnMiss ==
    last # <<>> /\ last.max_depth > 0 /\ Misses(last.ray) =>
        /\ last.value = Gradient(last.ray.direction)
        /\ last.hit_calls = 1
        /\ last.scatter_calls = 0

\* a scattered ray misses every sphere of a scene that has some
C6_Witness ==
    /\ last # <<>>
    /\ last.max_depth > 0
    /\ Misses(last.ray)
    /\ scene # <<>>
    /\ bounces # <<>>

\* the component-wise product of two colours
Product(c1, c2) ==
    [n |-> <<c1.n[1] * c2.n[1], c1.n[2] * c2.n[2], c1.n[3] * c2.n[3]>>,
     e |-> c1.e + c2.e]

RECURSIVE Throughput(_, _, _)
\* the loop accumulating the attenuations from the i-th on into acc
Throughput(attenuations, i, acc) ==
    IF i > Len(attenuations) THEN acc
    ELSE Throughput(attenuations, i + 1, Product(acc, attenuations[i]))

\* the value the path ended with
Terminal ==
    IF ending[1] = "miss" THEN Gradient(ending[2].direction)
    ELSE [n |-> <<0, 0, 0>>, e |-> 0]

C8_NoUnderflowPanic == pc # "panic"

\* the checked decrement has been executed
C8_Witness == scatter_calls >= 1 /\ Len(stack) >= 2

\* the depth d >= 0 the outermost call started from
StartDepth == IF max_depth > 0 THEN max_depth ELSE 0

C9_Bounds ==
    /\ Len(stack) <= StartDepth + 1
    /\ activations <= StartDepth + 1
    /\ scatter_calls <= StartDepth

\* a bound on the steps ray_color has left: two for every bounce left to the
\* innermost activation, one for its return, one for every return pending
StepsLeft ==
    Len(stack)
    + (IF pc = "call" /\ stack[Len(stack)].max_depth > 0
       THEN 2 * stack[Len(stack)].max_depth + 1
       ELSE IF pc = "call" THEN 1 ELSE 0)

\* the innermost activation can take its step: it has a frame, the pixel_color
\* it waits with, and a random point to draw
CanStep ==
    /\ stack # <<>>
    /\ pc = "return" => IsSome(stack[Len(stack)].color)
    /\ pc = "call" => random_in_unit_sphere(ColorCandidates) # {}

\* C9: ray_color terminates, with at most d + 1 activations, nested at most
\* d + 1 deep, and at most d calls of scatter: every step takes from the
\* steps left, and a step is possible until ray_color is done.
C9_BoundedTermination ==
    /\ []C9_Bounds
    /\ [][StepsLeft' < StepsLeft]_vars
    /\ [](pc \in {"call", "return"} => CanStep)

\* every ray hits and is scattered until the budget is used up
C9_Witness ==
    /\ pc = "done"
    /\ max_depth >= 2
    /\ activations = max_depth + 1
    /\ scatter_calls = max_depth
    /\ ending[1] = "exhausted"

-----------------------------------------------------------------------------
(* material.scatter on the hit of a ray: the inputs *)

ScatterScenes ==
    ColorScenes \cup {<<sphere_3>>, <<sphere_4>>,
                      <<Sphere(ONE, Vec3(0, 0, 0), mat_center)>>,
                      <<Sphere(ONE, Vec3(0, 0, -2 * ONE), mat_center)>>}

\* with a ray that grazes sphere_4
ScatterRays == ColorRays \cup HitRays \cup {Ray(Vec3(0, 0, 0), Vec3(ONE \div 2, 0, -ONE))}

ScatterCandidates ==
    ColorCandidates \cup
        {Vec3(0, 0, 0), Vec3(0, 0, -(ONE \div 2)), Vec3(0, EPSILON, 0),
         Vec3((9 * ONE) \div 10, 0, 0), Vec3(-((9 * ONE) \div 10), 0, 0),
         Vec3(0, 0, (9 * ONE) \div 10), Vec3(0, 0, -((9 * ONE) \div 10))}

InitScatter ==
    /\ scene \in ScatterScenes
    /\ ray \in ScatterRays
    /\ t_min = T_MIN
    /\ t_max = INFINITY
    /\ sphere_result = <<>>
    /\ scene_result = <<>>
    /\ scatter_result = <<>>
    /\ ColorIdle
    /\ PipelineIdle

\* object.material.scatter(&ray, &object) on the object scene.hit returned
CallScatter ==
    /\ SceneHitReturned
    /\ scatter_result = <<>>
    /\ \E p \in random_in_unit_sphere(ScatterCandidates) :
          scatter_result' =
              <<p, Scatter(Unwrap(scene_result[1]).material, ray,
                           Unwrap(scene_result[1]), p)>>
    /\ UNCHANGED <<scene, ray, hitVars, colorVars, pipelineVars>>

NextScatter == CallSceneHit \/ CallScatter

SpecScatter == InitScatter /\ [][NextScatter]_vars

\* C10: Lambertian::scatter returns Some((albedo, new_ray)), never None, and
\* new_ray starts at the hit point.
C10_LambertianAlwaysScatters ==
    scatter_result # <<>> /\ Unwrap(scene_result[1]).material.kind = "Lambertian" =>
        /\ IsSome(scatter_result[2])
        /\ Unwrap(scatter_result[2])[1] =
              [n |-> Unwrap(scene_result[1]).material.albedo, e |-> 1]
        /\ Unwrap(scatter_result[2])[2].origin = Unwrap(scene_result[1]).hit_point

\* a Lambertian sphere scatters a ray although the random point is the origin
C10_Witness ==
    /\ scatter_result # <<>>
    /\ Unwrap(scene_result[1]).material.kind = "Lambertian"
    /\ scatter_result[1] = <<0, 0, 0>>
    /\ IsSome(scatter_result[2])

-----------------------------------------------------------------------------
(* Claims about Metallic::scatter and the guard of Lambertian::scatter *)

ScatterReturned == scatter_result # <<>>

\* the hit scatter() was given, and the random point it drew
ScatterData == Unwrap(scene_result[1])

ScatterPoint == scatter_result[1]

\* the reflection of the ray, normalized, moved by roughness times the point
PerturbedReflection ==
    VAdd(Normalize(reflect(ray.direction, ScatterData.normal)),
         VScale(ScatterData.material.roughness, ScatterPoint))

\* C11: Metallic::scatter returns Some((albedo, new_ray)), new_ray leaving the
\* hit point along the perturbed reflection, if and only if the dot product
\* of the perturbed reflection with the hit normal is > 0, and None otherwise.
C11_MetallicAbsorbs ==
    ScatterReturned /\ ScatterData.material.kind = "Metallic" =>
        IF Dot(PerturbedReflection, ScatterData.normal) > 0
        THEN scatter_result[2] =
                 Some(<<Color(ScatterData.material.albedo, 1),
                        Ray(ScatterData.hit_point, PerturbedReflection)>>)
        ELSE scatter_result[2] = None

\* a rough metal absorbs a ray whose reflection alone leaves the surface
C11_Witness ==
    /\ ScatterReturned
    /\ ScatterData.material.kind = "Metallic"
    /\ Dot(Normalize(reflect(ray.direction, ScatterData.normal)), ScatterData.normal) > 0
    /\ Dot(PerturbedReflection, ScatterData.normal) <= 0
    /\ scatter_result[2] = None

\* the offset Lambertian::scatter draws: the random point, in the hemisphere
\* of the normal
RawOffset == random_in_hemisphere(ScatterPoint, ScatterData.normal)

WithinEpsilon(vec) ==
    Abs(vec[1]) <= EPSILON /\ Abs(vec[2]) <= EPSILON /\ Abs(vec[3]) <= EPSILON

ScatteredDirection == Unwrap(scatter_result[2])[2].direction

\* C12: the guard of Lambertian::scatter acts on the raw random offset: the
\* outgoing direction is the normal when the offset is within epsilon of
\* zero in all three axes, and the offset otherwise; the outgoing direction
\* is never of zero length, whatever the hit point.
C12_GuardOnRawOffset ==
    ScatterReturned /\ ScatterData.material.kind = "Lambertian" =>
        /\ ScatteredDirection =
              IF WithinEpsilon(RawOffset) THEN ScatterData.normal ELSE RawOffset
        /\ LengthSquared(ScatteredDirection) # 0

\* a scattered ray whose direction has length zero
C12_ZeroDirection ==
    /\ ScatterReturned
    /\ ScatterData.material.kind = "Lambertian"
    /\ ScatteredDirection = Vec3(0, 0, 0)

\* the vector Lambertian::scatter hands to near_zero
NearZeroArgument == VAdd(ScatterData.hit_point, RawOffset)

\* C22: near_zero(vec) is true exactly when |x| <= EPSILON and |y| <= EPSILON
\* and |z| <= EPSILON; it is false for a vector with a component whose
\* absolute value exceeds EPSILON, a large negative z included.
C22_NearZeroUniform ==
    ScatterReturned /\ ScatterData.material.kind = "Lambertian" =>
        (near_zero(NearZeroArgument) <=> WithinEpsilon(NearZeroArgument))

-----------------------------------------------------------------------------
(* RenderTask::render_scene (src/app/rendering.rs).  The sizes of the       *)
(* buffer and the number of samples are constants of the build             *)
(* (src/constants.rs): a behaviour starts with one choice of them.  The    *)
(* colour of a sample is what ray_color returns, drawn from SampleColors.  *)

\* the value of 0.0 * f32::INFINITY
NAN == -2147483647

RENDER_BUFFER_SIZE(width, height) == width * height * 4

\* vec![0.0; n]
Zeros(n) == [i \in 1 .. n |-> 0]

Ok(value) == [ok |-> TRUE, value |-> value]

Err(error) == [ok |-> FALSE, value |-> error]

\* colours ray_color returns: black, and the white of the background
SampleColors == {Vec3(0, 0, 0), Vec3(ONE, ONE, ONE)}

\* pixel_color += ray_color(..) for each of the samples
RECURSIVE SumSamples(_, _)
SumSamples(samples, n) ==
    IF n = 0 THEN Vec3(0, 0, 0) ELSE VAdd(SumSamples(samples, n - 1), samples[n])

\* pixel_color *= 1.0 / NUM_SAMPLES_PER_PIXEL as f32
ScaleSamples(pixel_color, n) ==
    IF n = 0 THEN Vec3(NAN, NAN, NAN) ELSE VScale(FDiv(ONE, n * ONE), pixel_color)

\* index += 3
NextIndex_rgb(i) == i + 3

\* index += 4
NextIndex(i) == i + 4

InitRender ==
    /\ TraceIdle
    /\ image_width \in 0 .. MaxWidth
    /\ image_height \in 0 .. MaxHeight
    /\ samples_per_pixel \in 0 .. MaxSamples
    /\ RenderIdle
    /\ DisplayIdle
    /\ SaveIdle
    /\ AppIdle

\* render_scene() up to its loops
RenderStart ==
    /\ render_pc = "idle"
    /\ render_buffer' = Zeros(RENDER_BUFFER_SIZE(image_width, image_height))
    /\ writes' = Zeros(RENDER_BUFFER_SIZE(image_width, image_height))
    /\ render_index' = 0
    /\ render_y' = image_height - 1
    /\ render_x' = 0
    /\ render_pc' = IF image_height = 0 \/ image_width = 0 THEN "return" ELSE "loop"
    /\ UNCHANGED <<buildVars, render_result, displayVars, saveVars, appVars, traceVars>>

\* one pass through the body of for y in (0..HEIGHT).rev() { for x in 0..WIDTH
RenderPixel ==
    /\ render_pc = "loop"
    /\ \E samples \in [1 .. samples_per_pixel -> SampleColors] :
          LET Store(rendered_color) ==
                  IF render_index + 3 >= Len(render_buffer)
                  THEN /\ render_pc' = "panic"
                       /\ UNCHANGED <<render_buffer, writes, render_index, render_x,
                                      render_y>>
                  ELSE /\ render_buffer' =
                              [render_buffer EXCEPT ![render_index + 1] = rendered_color[1],
                                                    ![render_index + 2] = rendered_color[2],
                                                    ![render_index + 3] = rendered_color[3],
                                                    ![render_index + 4] = ONE]
                       /\ writes' =
                              [k \in 1 .. Len(writes) |->
                                  IF k \in render_index + 1 .. render_index + 4
                                  THEN writes[k] + 1
                                  ELSE writes[k]]
                       /\ render_index' = NextIndex(render_index)
                       /\ IF render_x + 1 < image_width
                          THEN /\ render_x' = render_x + 1
                               /\ UNCHANGED <<render_y, render_pc>>
                          ELSE /\ render_x' = 0
                               /\ IF render_y > 0
                                  THEN render_y' = render_y - 1 /\ UNCHANGED render_pc
                                  ELSE render_pc' = "return" /\ UNCHANGED render_y
          IN  Store(ScaleSamples(SumSamples(samples, samples_per_pixel), samples_per_pixel))
    /\ UNCHANGED <<buildVars, render_result, displayVars, saveVars, appVars, traceVars>>

\* Ok(render_buffer)
RenderReturn ==
    /\ render_pc = "return"
    /\ render_result' = <<Ok(render_buffer)>>
    /\ render_pc' = "done"
    /\ UNCHANGED <<buildVars, render_buffer, render_index, render_x, render_y, writes,
                   displayVars, saveVars, appVars, traceVars>>

NextRender == RenderStart \/ RenderPixel \/ RenderReturn

SpecRender == InitRender /\ [][NextRender]_vars

PixelsDone == (image_height - 1 - render_y) * image_width + render_x

\* C13: render_scene returns a buffer of width * height * 4 elements.  The
\* write index advances by 4 per pixel, in the order of the loops, and stays
\* inside the buffer; every slot below the index has been written once and
\* no slot above it; at the end every slot has been written once and the
\* fourth component of every pixel is 1.0.
C13_RenderLayout ==
    /\ render_pc # "panic"
    /\ render_pc # "idle" =>
          /\ Len(render_buffer) = image_width * image_height * 4
          /\ render_index <= Len(render_buffer)
          /\ \A k \in 1 .. Len(writes) : writes[k] = IF k <= render_index THEN 1 ELSE 0
    /\ render_pc = "loop" => render_index = 4 * PixelsDone
    /\ render_pc \in {"return", "done"} => render_index = Len(render_buffer)
    /\ render_pc = "done" =>
          /\ render_result = <<Ok(render_buffer)>>
          /\ \A k \in 1 .. image_width * image_height : render_buffer[4 * k] = ONE

\* a render of at least two rows of two pixels has finished
C13_Witness ==
    /\ render_pc = "done"
    /\ image_width >= 2
    /\ image_height >= 2
    /\ samples_per_pixel >= 1
    /\ \A k \in 1 .. Len(writes) : writes[k] = 1

-----------------------------------------------------------------------------
(* RenderTask::convert_to_display_buffer (src/app/rendering.rs).  The       *)
(* tonemapper and the sRGB encoding are colstodian's: what is known of the *)
(* three bytes they give for a pixel is that they are bytes.               *)

MaxPixels == 2

\* n as u8, for an integer n: the cast saturates
Saturate(n) == IF n < 0 THEN 0 ELSE IF n > 255 THEN 255 ELSE n

\* value as u8 where the cast wraps around
AsU8_wrapping(value) == TDiv(value, ONE) % 256

\* value as u8, for an f32 value: the fraction is dropped, the cast saturates
AsU8(value) == Saturate(TDiv(value, ONE))

\* the pixel of the data pass
DataPassPixel(f32_pixel) ==
    <<AsU8(FMul(f32_pixel[1], 255 * ONE)), AsU8(FMul(f32_pixel[2], 255 * ONE)),
      AsU8(FMul(f32_pixel[3], 255 * ONE)), AsU8(FMul(f32_pixel[4], 255 * ONE))>>

\* an alpha that is always opaque
TonemappedAlpha_opaque(f32_pixel) == 255

\* (255 as f32 * alpha) as u8
TonemappedAlpha(f32_pixel) == AsU8(FMul(255 * ONE, f32_pixel[4]))

\* the pixel of the tonemapped pass, rgb being encoded.to_u8()
TonemappedPixel(f32_pixel, rgb) == <<rgb[1], rgb[2], rgb[3], TonemappedAlpha(f32_pixel)>>

\* encoded.to_u8(): three bytes
EncodedBytes == {<<0, 0, 0>>, <<255, 128, 1>>}

\* chunks_exact(4): chunk k of a buffer
Chunk(buffer, k) == SubSeq(buffer, 4 * k - 3, 4 * k)

\* the number of pairs of zip(a.chunks_exact(4), b.chunks_exact_mut(4))
ZippedChunks(len_a, len_b) ==
    IF len_a \div 4 < len_b \div 4 THEN len_a \div 4 ELSE len_b \div 4

\* the pixels a linear buffer is made of
DisplayPixels ==
    {<<0, 0, 0, ONE>>, <<ONE, ONE, ONE, ONE>>,
     <<ONE \div 2, 2 * ONE, -(ONE \div 2), ONE \div 2>>,
     <<3, ONE - 1, ONE + 1, 0>>,
     <<(3 * ONE) \div 10, (7 * ONE) \div 10, ONE, 2 * ONE>>}

RECURSIVE Flatten(_)
Flatten(pixels) ==
    IF pixels = <<>> THEN <<>> ELSE Head(pixels) \o Flatten(Tail(pixels))

InitDisplay ==
    /\ TraceIdle
    /\ image_width \in 1 .. MaxWidth
    /\ image_height \in 1 .. MaxHeight
    /\ samples_per_pixel = MaxSamples
    /\ RenderIdle
    /\ display_input \in {Flatten(pixels) : pixels \in SeqsUpTo(DisplayPixels, MaxPixels)}
    /\ is_data_pass \in BOOLEAN
    /\ display_result = <<>>
    /\ SaveIdle
    /\ AppIdle

\* the bytes encoded.to_u8() can give for the pixels of a conversion
Encodings(len, size) == [1 .. ZippedChunks(len, size) -> EncodedBytes]

\* convert_to_display_buffer(render_buffer, is_data_pass): the display_buffer
\* of its Ok, size being RENDER_BUFFER_SIZE and encoded[k] the bytes of
\* encoded.to_u8() for pixel k
convert_to_display_buffer(buffer, data_pass, size, encoded) ==
    LET u8_pixel(k) ==
            IF data_pass
            THEN DataPassPixel(Chunk(buffer, k))
            ELSE TonemappedPixel(Chunk(buffer, k), encoded[k])
    IN  [i \in 1 .. size |->
            IF (i + 3) \div 4 \in DOMAIN encoded
            THEN u8_pixel((i + 3) \div 4)[((i - 1) % 4) + 1]
            ELSE 0]

\* a call of convert_to_display_buffer(display_input, is_data_pass)
ConvertToDisplayBuffer ==
    /\ display_result = <<>>
    /\ \E encoded \in Encodings(Len(display_input),
                                 RENDER_BUFFER_SIZE(image_width, image_height)) :
          display_result' =
              <<Ok(convert_to_display_buffer(
                       display_input, is_data_pass,
                       RENDER_BUFFER_SIZE(image_width, image_height), encoded))>>
    /\ UNCHANGED <<buildVars, renderVars, display_input, is_data_pass, saveVars, appVars,
                   traceVars>>

NextDisplay == ConvertToDisplayBuffer

SpecDisplay == InitDisplay /\ [][NextDisplay]_vars

Converted == display_result # <<>>

DisplayBuffer == display_result[1].value

\* the pixels of the input that have a pixel in the display buffer
ConvertedPixels ==
    1 .. ZippedChunks(Len(display_input), Len(DisplayBuffer))

\* C15: the display buffer has the length of the linear buffer, and every
\* pixel of the linear buffer has its pixel in the display buffer, computed
\* from it alone.
C15_SameLength ==
    Converted =>
        /\ display_result[1].ok
        /\ Len(DisplayBuffer) = Len(display_input)
        /\ \A k \in 1 .. Len(display_input) \div 4 :
              /\ k \in ConvertedPixels
              /\ is_data_pass =>
                    Chunk(DisplayBuffer, k) = DataPassPixel(Chunk(display_input, k))

\* C16: in the data pass every channel c becomes the integer part of
\* c * 255 saturated to 0 .. 255: 0.0 becomes 0, 1.0 becomes 255, and a
\* smaller channel never becomes a larger byte.
C16_DataPassLinear ==
    Converted /\ is_data_pass =>
        \A i \in 1 .. 4 * Cardinality(ConvertedPixels) :
            /\ DisplayBuffer[i] = Saturate((display_input[i] * 255) \div ONE)
            /\ display_input[i] = 0 => DisplayBuffer[i] = 0
            /\ display_input[i] = ONE => DisplayBuffer[i] = 255
            /\ \A j \in 1 .. 4 * Cardinality(ConvertedPixels) :
                  display_input[i] < display_input[j] => DisplayBuffer[i] <= DisplayBuffer[j]

\* a data pass has converted channels below 0.0, at 0.0, at 1.0 and above
C16_Witness ==
    /\ Converted
    /\ is_data_pass
    /\ \E i, j, k, l \in 1 .. 4 * Cardinality(ConvertedPixels) :
          /\ display_input[i] < 0 /\ DisplayBuffer[i] = 0
          /\ display_input[j] = 0
          /\ display_input[k] = ONE
          /\ display_input[l] > ONE /\ DisplayBuffer[l] = 255

\* C17: in both passes the alpha of a display pixel is the integer part of
\* 255 * alpha saturated to 0 .. 255, the alpha of the data pass, whatever
\* the colour of the pixel; an alpha of 1.0 becomes 255.
C17_AlphaUntouched ==
    Converted =>
        \A k \in ConvertedPixels :
            /\ DisplayBuffer[4 * k] = DataPassPixel(Chunk(display_input, k))[4]
            /\ DisplayBuffer[4 * k] = Saturate((255 * display_input[4 * k]) \div ONE)
            /\ display_input[4 * k] = ONE => DisplayBuffer[4 * k] = 255

\* the tonemapped pass has converted a pixel of alpha 0.5 and one of alpha 1.0
C17_Witness ==
    /\ Converted
    /\ ~is_data_pass
    /\ \E k, l \in ConvertedPixels :
          /\ display_input[4 * k] = ONE \div 2
          /\ DisplayBuffer[4 * k] = 127
          /\ DisplayBuffer[4 * k - 3] = 255
          /\ display_input[4 * l] = ONE
          /\ DisplayBuffer[4 * l] = 255

-----------------------------------------------------------------------------
(* convert_to_openexr (src/app/rendering.rs) and save_exr_image_to_disk     *)
(* (src/app/filesystem.rs).  A path is the sequence of its components.  The *)
(* file system is the set of the directories and the content of the files  *)
(* that exist.  Creating a directory and writing a file succeed or fail as  *)
(* the file system decides: create_ok and write_outcome.                    *)

\* convert_to_openexr(width, height, render_buffer): the image of its Ok
convert_to_openexr(width, height, buffer) ==
    [resolution |-> <<width, height>>,
     R |-> [k \in 1 .. Len(buffer) \div 4 |-> buffer[4 * k - 3]],
     G |-> [k \in 1 .. Len(buffer) \div 4 |-> buffer[4 * k - 2]],
     B |-> [k \in 1 .. Len(buffer) \div 4 |-> buffer[4 * k - 1]]]

\* Path::parent(): None for a path without components, and for the root
Parent(path) == IF Len(path) <= 1 THEN None ELSE Some(SubSeq(path, 1, Len(path) - 1))

\* DirBuilder::new().recursive(true).create(dir): the directories after it
CreateRecursive(dirs, dir) == dirs \cup {SubSeq(dir, 1, k) : k \in 1 .. Len(dir)}

\* the directories when the write starts, the error of create() dropped
EnsureParent_unchecked(dirs, parent_dir, create_ok) ==
    IF parent_dir \in dirs
    THEN Some(dirs)
    ELSE IF create_ok THEN Some(CreateRecursive(dirs, parent_dir)) ELSE Some(dirs)

\* if !parent_dir.exists() { create(parent_dir)? }: the directories when the
\* write starts, None when create() failed
EnsureParent(dirs, parent_dir, create_ok) ==
    IF parent_dir \in dirs
    THEN Some(dirs)
    ELSE IF create_ok THEN Some(CreateRecursive(dirs, parent_dir)) ELSE None

\* what the file system can do with a write
WriteOutcomes == {"written", "not created", "removed", "partial"}

\* the content of a file
Complete(image) == [complete |-> TRUE, image |-> image]

Partial(image) == [complete |-> FALSE, image |-> image]

\* f with the value v at x, x added to its domain
Store(f, x, v) == [z \in (DOMAIN f) \cup {x} |-> IF z = x THEN v ELSE f[z]]

\* f without x
Remove(f, x) == [z \in (DOMAIN f) \ {x} |-> f[z]]

\* image.write().to_file(&image_path): the files after it.  A write that
\* fails leaves the file as it was when it could not be created, and else
\* either removes it or leaves what has been written of it.
WriteToFile(files, dirs, image, image_path, write_outcome) ==
    IF Unwrap(Parent(image_path)) \notin dirs \/ write_outcome = "not created"
    THEN [ok |-> FALSE, files |-> files]
    ELSE IF write_outcome = "written"
    THEN [ok |-> TRUE, files |-> Store(files, image_path, Complete(image))]
    ELSE IF write_outcome = "removed"
    THEN [ok |-> FALSE, files |-> Remove(files, image_path)]
    ELSE [ok |-> FALSE, files |-> Store(files, image_path, Partial(image))]

\* save_exr_image_to_disk(image, image_path): result is the Result returned,
\* None when expect() panicked; written tells that the write was attempted,
\* dirs and files are the file system after the call
save_exr_image_to_disk(image, image_path, dirs, files, create_ok, write_outcome) ==
    LET Written(dirs_then, w) ==
            [result |-> Some(IF w.ok THEN Ok("()") ELSE Err("Failed to write image")),
             written |-> TRUE, dirs |-> dirs_then, files |-> w.files]
        Ensured(dirs_then) ==
            IF dirs_then = None
            THEN [result |-> Some(Err("create")), written |-> FALSE, dirs |-> dirs,
                  files |-> files]
            ELSE Written(Unwrap(dirs_then),
                         WriteToFile(files, Unwrap(dirs_then), image, image_path,
                                     write_outcome))
    IN  IF Parent(image_path) = None
        THEN [result |-> None, written |-> FALSE, dirs |-> dirs, files |-> files]
        ELSE Ensured(EnsureParent(dirs, Unwrap(Parent(image_path)), create_ok))

\* the image of a file that exists before the call
OldImage == convert_to_openexr(1, 1, <<ONE, 0, 0, ONE>>)

SavePaths ==
    {<<"outputs", "sample_file.exr">>, <<"outputs", "renders", "a.exr">>, <<"a.exr">>}

InitSave ==
    /\ TraceIdle
    /\ image_width \in 1 .. MaxWidth
    /\ image_height = 1
    /\ samples_per_pixel = MaxSamples
    /\ RenderIdle
    /\ DisplayIdle
    /\ \E pixels \in SeqsUpTo(DisplayPixels, MaxWidth) :
          /\ Len(pixels) = image_width
          /\ save_image = convert_to_openexr(image_width, image_height, Flatten(pixels))
    /\ save_path \in SavePaths
    /\ fs_dirs \in {{}, {<<"outputs">>}, {<<"outputs">>, <<"outputs", "renders">>}}
    /\ \/ fs_files = <<>>
       \/ /\ Parent(save_path) # None
          /\ Unwrap(Parent(save_path)) \in fs_dirs
          /\ fs_files = Store(<<>>, save_path, Complete(OldImage))
    /\ save_result = <<>>
    /\ AppIdle

\* save_exr_image_to_disk(image, image_path)
CallSave ==
    /\ save_result = <<>>
    /\ \E create_ok \in BOOLEAN, write_outcome \in WriteOutcomes :
          LET Saved(r) ==
                  /\ save_result' = <<r>>
                  /\ fs_dirs' = r.dirs
                  /\ fs_files' = r.files
          IN  Saved(save_exr_image_to_disk(save_image, save_path, fs_dirs, fs_files,
                                           create_ok, write_outcome))
    /\ UNCHANGED <<buildVars, renderVars, displayVars, save_image, save_path, appVars,
                   traceVars>>

NextSave == CallSave

SpecSave == InitSave /\ [][NextSave]_vars

SaveReturned == save_result # <<>> /\ IsSome(save_result[1].result)

SaveResult == Unwrap(save_result[1].result)

C19_NoPartialFile ==
    SaveReturned /\ ~SaveResult.ok =>
        \/ save_path \notin DOMAIN fs_files
        \/ fs_files[save_path] = Complete(OldImage)

-----------------------------------------------------------------------------
(* LTSRApp (src/app/mod.rs).  update() handles one Message at a time.  A    *)
(* Command::perform(future, f) starts a task; when the task has finished,  *)
(* update() is handed f(result).  The tasks finish in any order.  The      *)
(* messages of the buttons and of the text field arrive at any time.       *)

MaxRenders == 2

\* image::Handle::from_pixels(width, height, pixels)
Handle(width, height, pixels) == [width |-> width, height |-> height, pixels |-> pixels]

\* the pixels render_scene computes from n samples
RenderedPixels(n) ==
    {ScaleSamples(SumSamples(samples, n), n) \o <<ONE>> : samples \in [1 .. n -> SampleColors]}

\* the buffers render_scene returns
RenderedBuffers(width, height, n) ==
    {Flatten(pixels) : pixels \in [1 .. width * height -> RenderedPixels(n)]}

\* what the user types into the text field
FileNames == {"sample_file", ""}

RenderTaskOf(id) == [kind |-> "render", id |-> id, buffer |-> <<>>]

\* the task of a conversion that is handed self.render_buffer
ConversionTaskOf_stored(id, buffer) ==
    [kind |-> "convert", id |-> id, buffer |-> [k \in 1 .. Len(buffer) |-> 0]]

ConversionTaskOf(id, buffer) == [kind |-> "convert", id |-> id, buffer |-> buffer]

\* the name as typed, without the extension
WithExt_bare(name) == name

\* format!("{file_name}.exr")
WithExt(name) == name \o ".exr"

\* LTSRApp::new
InitApp ==
    /\ TraceIdle
    /\ image_width = 1
    /\ image_height = 1
    /\ samples_per_pixel = 1
    /\ RenderIdle
    /\ DisplayIdle
    /\ fs_dirs \in {{}, {<<"outputs">>}}
    /\ fs_files = <<>>
    /\ save_image = <<>>
    /\ save_path = <<>>
    /\ save_result = <<>>
    /\ file_name = "sample_file"
    /\ file_name_with_ext = WithExt("sample_file")
    /\ current_render_progress = 0
    /\ render_progress_label = "Render not started."
    /\ rendered_image =
          Handle(image_width, image_height,
                 Zeros(RENDER_BUFFER_SIZE(image_width, image_height)))
    /\ app_render_buffer = Zeros(RENDER_BUFFER_SIZE(image_width, image_height))
    /\ tasks = {}
    /\ renders_started = 0
    /\ last_finished = <<>>
    /\ shown_render = 0

\* Message::RenderPressed
RenderPressed ==
    /\ renders_started < MaxRenders
    /\ render_progress_label' = "Starting new Render in the background.."
    /\ renders_started' = renders_started + 1
    /\ tasks' = tasks \cup {RenderTaskOf(renders_started + 1)}
    /\ UNCHANGED <<file_name, file_name_with_ext, current_render_progress, rendered_image,
                   app_render_buffer, last_finished, shown_render>>
    /\ UNCHANGED <<buildVars, renderVars, displayVars, saveVars, traceVars>>

\* a render_scene() task finishes: Message::RenderTaskFinished(Ok(render_buffer))
\* (render_scene returns no Err)
RenderTaskFinished ==
    /\ \E task \in tasks :
          /\ task.kind = "render"
          /\ \E buffer \in RenderedBuffers(image_width, image_height, samples_per_pixel) :
                /\ tasks' = (tasks \ {task}) \cup {ConversionTaskOf(task.id, buffer)}
                /\ last_finished' = <<[id |-> task.id, buffer |-> buffer]>>
    /\ render_progress_label' = "Main ACEScg Render finished, converting to sRGB.."
    /\ UNCHANGED <<file_name, file_name_with_ext, current_render_progress, rendered_image,
                   app_render_buffer, renders_started, shown_render>>
    /\ UNCHANGED <<buildVars, renderVars, displayVars, saveVars, traceVars>>

\* a convert_to_display_buffer() task finishes:
\* Message::DisplayConversionTaskFinished(Ok(display_buffer))
\* (convert_to_display_buffer returns no Err)
DisplayConversionTaskFinished ==
    /\ \E task \in tasks :
          /\ task.kind = "convert"
          /\ \E data_pass \in BOOLEAN,
                encoded \in Encodings(Len(task.buffer),
                                      RENDER_BUFFER_SIZE(image_width, image_height)) :
                rendered_image' =
                    Handle(image_width, image_height,
                           convert_to_display_buffer(
                               task.buffer, data_pass,
                               RENDER_BUFFER_SIZE(image_width, image_height), encoded))
          /\ tasks' = tasks \ {task}
          /\ shown_render' = task.id
    /\ render_progress_label' = "Converted from ACEScg to Display Color Space!"
    /\ UNCHANGED <<file_name, file_name_with_ext, current_render_progress,
                   app_render_buffer, renders_started, last_finished>>
    /\ UNCHANGED <<buildVars, renderVars, displayVars, saveVars, traceVars>>

\* Message::FileNameChanged(new_name)
FileNameChanged ==
    /\ \E new_name \in FileNames :
          /\ file_name' = new_name
          /\ file_name_with_ext' = WithExt(new_name)
    /\ UNCHANGED <<current_render_progress, render_progress_label, rendered_image,
                   app_render_buffer, tasks, renders_started, last_finished, shown_render>>
    /\ UNCHANGED <<buildVars, renderVars, displayVars, saveVars, traceVars>>

\* Message::SaveFilePressed
SaveFilePressed ==
    /\ save_path' = <<"outputs", file_name_with_ext>>
    /\ save_image' = convert_to_openexr(image_width, image_height, app_render_buffer)
    /\ \E create_ok \in BOOLEAN, write_outcome \in WriteOutcomes :
          LET Saved(r) ==
                  /\ save_result' = <<r>>
                  /\ fs_dirs' = r.dirs
                  /\ fs_files' = r.files
          IN  Saved(save_exr_image_to_disk(
                        convert_to_openexr(image_width, image_height, app_render_buffer),
                        <<"outputs", file_name_with_ext>>, fs_dirs, fs_files,
                        create_ok, write_outcome))
    /\ UNCHANGED <<buildVars, renderVars, displayVars, appVars, traceVars>>

NextApp ==
    \/ RenderPressed
    \/ RenderTaskFinished
    \/ DisplayConversionTaskFinished
    \/ FileNameChanged
    \/ SaveFilePressed

SpecApp == InitApp /\ [][NextApp]_vars

\* the tasks finish
SpecAppLive ==
    SpecApp /\ WF_vars(RenderTaskFinished) /\ WF_vars(DisplayConversionTaskFinished)

\* C20: once RenderTaskFinished(Ok(buf)) has been handled, render_buffer is
\* buf, and what SaveFilePressed exports are the R, G and B channels of buf.
C20_RenderBufferStored ==
    /\ [](last_finished # <<>> => app_render_buffer = last_finished[1].buffer)
    /\ [][SaveFilePressed /\ last_finished # <<>> =>
              save_image' = convert_to_openexr(image_width, image_height,
                                               last_finished[1].buffer)]_vars

\* a save after a render has finished
C20_SavedAfterRender ==
    /\ last_finished # <<>>
    /\ save_result # <<>>
    /\ save_image = convert_to_openexr(image_width, image_height,
                                       Zeros(RENDER_BUFFER_SIZE(image_width, image_height)))
    /\ save_image # convert_to_openexr(image_width, image_height, last_finished[1].buffer)

\* the display buffers convert_to_display_buffer can return for a buffer
Conversions(buffer) ==
    {convert_to_display_buffer(buffer, data_pass,
                               RENDER_BUFFER_SIZE(image_width, image_height), encoded) :
        data_pass \in BOOLEAN,
        encoded \in Encodings(Len(buffer), RENDER_BUFFER_SIZE(image_width, image_height))}

\* C21: RenderPressed starts one render task and nothing else.  A conversion
\* task starts only in the step that handles the RenderTaskFinished(Ok) of a
\* render, and is handed the buffer of that render.  rendered_image changes
\* only in the step that handles the end of a conversion task, and becomes a
\* display buffer converted from the buffer of that task.  A render task
\* leaves only by starting its conversion and a conversion task only by
\* displaying its image, one task a step, and when the tasks finish no task
\* stays pending: every render started is followed by the display of its image.
C21_PipelineOrder ==
    /\ [][renders_started' # renders_started =>
              /\ RenderTaskOf(renders_started') \notin tasks
              /\ tasks' = tasks \cup {RenderTaskOf(renders_started')}]_vars
    /\ [][\A task \in tasks' \ tasks :
              task.kind = "convert" =>
                  /\ RenderTaskOf(task.id) \in tasks
                  /\ tasks' = (tasks \ {RenderTaskOf(task.id)}) \cup {task}
                  /\ last_finished' = <<[id |-> task.id, buffer |-> task.buffer]>>
                  /\ render_progress_label' =
                        "Main ACEScg Render finished, converting to sRGB.."]_vars
    /\ [][rendered_image' # rendered_image \/ shown_render' # shown_render =>
              \E task \in tasks :
                  /\ task.kind = "convert"
                  /\ tasks' = tasks \ {task}
                  /\ shown_render' = task.id
                  /\ rendered_image' \in
                        {Handle(image_width, image_height, pixels) :
                            pixels \in Conversions(task.buffer)}]_vars
    /\ [][\A task \in tasks \ tasks' :
              /\ tasks \ tasks' = {task}
              /\ task.kind = "render" =>
                     \E next \in tasks' \ tasks : next.kind = "convert" /\ next.id = task.id
              /\ task.kind = "convert" =>
                     /\ shown_render' = task.id
                     /\ rendered_image' \in
                           {Handle(image_width, image_height, pixels) :
                               pixels \in Conversions(task.buffer)}]_vars
    /\ []<>(tasks = {})

\* two renders have been started and both are displayed, the second last
C21_Witness ==
    /\ renders_started = 2
    /\ tasks = {}
    /\ shown_render = 2
    /\ last_finished # <<>>
    /\ last_finished[1].id = 2
    /\ rendered_image.pixels \in Conversions(last_finished[1].buffer)

\* C23: in every reachable state of the application file_name_with_ext is
\* file_name followed by ".exr"; a step that changes the file name changes
\* file_name and file_name_with_ext only: render_buffer, rendered_image, the
\* progress label and everything else stay as they were.
C23_FileNameWithExt ==
    /\ [](file_name_with_ext = file_name \o ".exr")
    /\ [][file_name' # file_name \/ file_name_with_ext' # file_name_with_ext =>
              UNCHANGED <<app_render_buffer, rendered_image, render_progress_label,
                          current_render_progress, tasks, renders_started,
                          last_finished, shown_render, buildVars, renderVars,
                          displayVars, saveVars, traceVars>>]_vars

\* the name was emptied after a render was displayed and saved, and saved again
C23_Witness ==
    /\ file_name = ""
    /\ file_name_with_ext = ".exr"
    /\ shown_render = 1
    /\ save_path = <<"outputs", ".exr">>
    /\ <<"outputs", "sample_file.exr">> \in DOMAIN fs_files
    /\ render_progress_label = "Converted from ACEScg to Display Color Space!"

\* C24: RenderPressed may come several times before the earlier renders have
\* finished and the tasks complete in any interleaving; once all of them
\* have completed, the image shown is that of the render started last.
C24_LatestRenderShown ==
    tasks = {} /\ renders_started >= 1 => shown_render = renders_started

====
